---- MODULE Spec2Model ----
(***************************************************************************)
(* task-cli (src/src/main.rs): a command-line task tracker.  Every         *)
(* invocation reads ~/.tasks.json into a Vec<Task>, runs one command on    *)
(* that vector and writes the vector back.  The model runs up to two       *)
(* invocations at a time against one file, each invocation being a         *)
(* sequence of steps: the read of the file, the command, the write.        *)
(***************************************************************************)
EXTENDS Integers, Sequences, FiniteSets, TLC

\* Number of invocations started in one behaviour.
MaxRuns == 2

\* Invocations that may be alive at the same time.
Procs == {1, 2}

\* Canonical strings of the ULIDs that Ulid::new() can return.
UlidTable == <<"01A", "01B", "01C">>
Ulids == DOMAIN UlidTable

VARIABLES
    file,        \* ~/.tasks.json: [kind, data]
    perm,        \* whether the file can be read and written: [r, w]
    pc,          \* where each invocation is in main
    args,        \* std::env::args() of each invocation
    tasks,       \* the local `tasks` vector of each invocation
    out,         \* the lines each invocation printed
    runs,        \* invocations started so far
    issued,      \* the ULIDs generated so far (those of the first file included)
    fresh,       \* no ULID was generated twice so far
    lastWriter,  \* the invocation whose write of the file was the last one, or 0
    stale        \* stale[p]: another invocation wrote the file after p read it

vars == <<file, perm, pc, args, tasks, out, runs, issued, fresh, lastWriter, stale>>

----------------------------------------------------------------------------
(* Parsing and formatting *)

\* Utc::now(): the clock advances with every invocation started; the tasks of
\* the first file were made at time 0.
UtcNow == runs

Ok(v) == [ok |-> TRUE, val |-> v]
Err(e) == [ok |-> FALSE, val |-> e]

\* impl FromStr for Commands
CommandsFromStr(s) ==
    CASE s = "add" -> Ok("Add")
      [] s = "update" -> Ok("Update")
      [] s = "delete" -> Ok("Delete")
      [] s = "mark" -> Ok("Mark")
      [] s = "list" -> Ok("List")
      [] OTHER -> Err("InvalidCommand")

\* Status::from_str taking an unknown keyword for ToDo instead of failing.
StatusFromStrLenient(s) ==
    CASE s = "in-progress" -> Ok("InProgress")
      [] s = "done" -> Ok("Done")
      [] OTHER -> Ok("ToDo")

\* impl FromStr for Status
StatusFromStr(s) ==
    CASE s = "in-progress" -> Ok("InProgress")
      [] s = "done" -> Ok("Done")
      [] s = "todo" -> Ok("ToDo")
      [] OTHER -> Err("InvalidArgs")

\* impl Display for Status
StatusDisplay(st) ==
    CASE st = "Done" -> "done"
      [] st = "ToDo" -> "todo"
      [] st = "InProgress" -> "in-progress"

\* Status written to the file the way Display prints it.
StatusSerializeAsDisplayed(st) ==
    CASE st = "InProgress" -> "in-progress"
      [] st = "Done" -> "done"
      [] st = "ToDo" -> "todo"

\* Serialize for Status under #[serde(rename_all = "kebab-case")]
StatusSerialize(st) ==
    CASE st = "InProgress" -> "in-progress"
      [] st = "Done" -> "done"
      [] st = "ToDo" -> "to-do"

\* Deserialize for Status under #[serde(rename_all = "kebab-case")]
StatusDeserialize(s) ==
    CASE s = "in-progress" -> Ok("InProgress")
      [] s = "done" -> Ok("Done")
      [] s = "to-do" -> Ok("ToDo")
      [] OTHER -> Err("unknown variant")

\* Ulid::from_string
UlidFromString(s) ==
    IF \E u \in Ulids : UlidTable[u] = s
    THEN Ok(CHOOSE u \in Ulids : UlidTable[u] = s)
    ELSE Err("invalid ulid format")

\* Display / Serialize for Ulid
UlidToString(u) == UlidTable[u]

\* struct Task
Task(id, description, status, created_at, updated_at) ==
    [id |-> id, description |-> description, status |-> status,
     created_at |-> created_at, updated_at |-> updated_at]

\* One JSON object of the file
TaskSerialize(t) ==
    [id |-> UlidToString(t.id), description |-> t.description,
     status |-> StatusSerialize(t.status),
     created_at |-> t.created_at, updated_at |-> t.updated_at]

TaskDeserializable(j) ==
    UlidFromString(j.id).ok /\ StatusDeserialize(j.status).ok

TaskDeserialize(j) ==
    Task(UlidFromString(j.id).val, j.description, StatusDeserialize(j.status).val,
         j.created_at, j.updated_at)

\* serde_json::to_vec(&tasks)
ToVec(ts) == [kind |-> "json", data |-> [i \in 1..Len(ts) |-> TaskSerialize(ts[i])]]

\* serde_json::from_slice::<Vec<Task>>
FromSlice(f) ==
    IF f.kind = "json" /\ \A i \in 1..Len(f.data) : TaskDeserializable(f.data[i])
    THEN Ok([i \in 1..Len(f.data) |-> TaskDeserialize(f.data[i])])
    ELSE Err(<<>>)

----------------------------------------------------------------------------
(* The command line *)

\* Words given where an id is expected: the canonical strings, and a malformed one.
IdWords == {UlidTable[u] : u \in Ulids} \cup {"xyz"}

\* Words given where a status is expected: the three keywords, and an unknown one.
StatusWords == {"todo", "in-progress", "done", "started"}

\* The argument vectors of an invocation (args[0] is the program's name): every
\* command with its arguments missing, malformed and well-formed.
ArgVectors ==
    {<<"task-cli">>, <<"task-cli", "frob">>}
    \cup {<<"task-cli", c>> : c \in {"add", "update", "delete", "mark", "list"}}
    \cup {<<"task-cli", "add", "b">>}
    \cup {<<"task-cli", "list", k>> : k \in StatusWords}
    \cup {<<"task-cli", "mark", "01A">>, <<"task-cli", "update", "01A">>}
    \cup {<<"task-cli", "delete", i>> : i \in IdWords}
    \cup {<<"task-cli", "mark", "01A", k>> : k \in StatusWords}
    \cup {<<"task-cli", "mark", i, "done">> : i \in IdWords}
    \cup {<<"task-cli", "update", i, "b">> : i \in IdWords}

\* args[i] of the Rust vector (0-based); args.get(i).is_some()
Arg(a, i) == a[i + 1]
HasArg(a, i) == Len(a) > i

----------------------------------------------------------------------------
(* The operations on the vector *)

\* The new task put before the others.
PushFront(ts, t) == <<t>> \o ts

\* tasks.push(new_task)
Push(ts, t) == Append(ts, t)

\* The loop of mark without its break.
MarkAll(ts, id, st) ==
    [i \in 1..Len(ts) |-> IF ts[i].id = id THEN [ts[i] EXCEPT !.status = st] ELSE ts[i]]

\* for task in tasks.iter_mut() { if task.id == id { task.status = status; break; } }
RECURSIVE MarkFirst(_, _, _)
MarkFirst(ts, id, st) ==
    IF ts = <<>> THEN <<>>
    ELSE IF Head(ts).id = id
         THEN <<[Head(ts) EXCEPT !.status = st]>> \o Tail(ts)
         ELSE <<Head(ts)>> \o MarkFirst(Tail(ts), id, st)

\* The loop of update refreshing updated_at as well.
RECURSIVE UpdateFirstTouch(_, _, _)
UpdateFirstTouch(ts, id, d) ==
    IF ts = <<>> THEN <<>>
    ELSE IF Head(ts).id = id
         THEN <<[Head(ts) EXCEPT !.description = d, !.updated_at = UtcNow]>> \o Tail(ts)
         ELSE <<Head(ts)>> \o UpdateFirstTouch(Tail(ts), id, d)

\* for task in tasks.iter_mut() { if task.id == id { task.description = ..; break; } }
RECURSIVE UpdateFirst(_, _, _)
UpdateFirst(ts, id, d) ==
    IF ts = <<>> THEN <<>>
    ELSE IF Head(ts).id = id
         THEN <<[Head(ts) EXCEPT !.description = d]>> \o Tail(ts)
         ELSE <<Head(ts)>> \o UpdateFirst(Tail(ts), id, d)

\* retain with its test the wrong way round: the tasks of the id are the ones kept.
RECURSIVE RetainMatching(_, _)
RetainMatching(ts, id) ==
    IF ts = <<>> THEN <<>>
    ELSE IF Head(ts).id = id
         THEN <<Head(ts)>> \o RetainMatching(Tail(ts), id)
         ELSE RetainMatching(Tail(ts), id)

\* tasks.retain(|task| task.id != id)
RECURSIVE Retain(_, _)
Retain(ts, id) ==
    IF ts = <<>> THEN <<>>
    ELSE IF Head(ts).id # id
         THEN <<Head(ts)>> \o Retain(Tail(ts), id)
         ELSE Retain(Tail(ts), id)

\* The filter of list with its test the wrong way round.
RECURSIVE FilterOthers(_, _)
FilterOthers(ts, st) ==
    IF ts = <<>> THEN <<>>
    ELSE IF Head(ts).status # st
         THEN <<Head(ts)>> \o FilterOthers(Tail(ts), st)
         ELSE FilterOthers(Tail(ts), st)

\* tasks.iter().filter(|task| task.status == status).cloned().collect()
RECURSIVE Filter(_, _)
Filter(ts, st) ==
    IF ts = <<>> THEN <<>>
    ELSE IF Head(ts).status = st
         THEN <<Head(ts)>> \o Filter(Tail(ts), st)
         ELSE Filter(Tail(ts), st)

\* println!("{}. {} ({})", task.id, task.description, task.status)
PrintLine(t) == <<UlidToString(t.id), t.description, StatusDisplay(t.status)>>

\* for task in tasks { println!(..) }
PrintAll(ts) == [i \in 1..Len(ts) |-> PrintLine(ts[i])]

\* print_help()
HelpText == <<"Usage: task-cli [command] [args]">>

----------------------------------------------------------------------------
(* The file *)

Absent == [kind |-> "absent", data |-> <<>>]

\* What std::fs::read returns: an error when there is no file or it cannot be read.
ReadFile == IF file.kind = "absent" \/ ~perm.r THEN Err("io") ELSE Ok(file)

\* Files found at the first invocation: none, one that is no JSON array, and
\* arrays written earlier (or by hand), one of them with an id used twice and
\* one with a status keyword serde does not know.
J(id, d, st) == [id |-> id, description |-> d, status |-> st, created_at |-> 0, updated_at |-> 0]
FirstFiles ==
    { Absent,
      [kind |-> "garbage", data |-> <<>>],
      [kind |-> "json", data |-> <<J("01A", "a", "to-do")>>],
      [kind |-> "json", data |-> <<J("01A", "a", "done"), J("01B", "b", "in-progress")>>],
      [kind |-> "json", data |-> <<J("01A", "a", "to-do"), J("01A", "b", "to-do")>>],
      [kind |-> "json", data |-> <<J("01A", "a", "todo")>> ] }

\* The file whose permissions the model varies.
ProtectedFile == [kind |-> "json", data |-> <<J("01A", "a", "to-do")>>]

IdsOf(f) == {u \in Ulids : \E i \in 1..Len(f.data) : f.data[i].id = UlidToString(u)}

DistinctIds(f) ==
    \A i, j \in 1..Len(f.data) : f.data[i].id = f.data[j].id => i = j

----------------------------------------------------------------------------
(* The invocations *)

Init ==
    /\ file \in FirstFiles
    /\ perm \in [r : BOOLEAN, w : BOOLEAN]
    /\ (~perm.r \/ ~perm.w => file = ProtectedFile)
    /\ pc = [p \in Procs |-> "idle"]
    /\ args = [p \in Procs |-> <<>>]
    /\ tasks = [p \in Procs |-> <<>>]
    /\ out = [p \in Procs |-> <<>>]
    /\ runs = 0
    /\ issued = IdsOf(file)
    /\ fresh = DistinctIds(file)
    /\ lastWriter = 0
    /\ stale = [p \in Procs |-> FALSE]

\* A command works on the invocation's own vector: it is run right after the
\* read, before any other invocation moves.
CommandPending == \E q \in Procs : pc[q] = "loaded"

\* A new invocation takes the first free slot, once the processes that ended
\* are gone.
CanStart(p) ==
    /\ pc[p] = "idle"
    /\ runs < MaxRuns
    /\ ~CommandPending
    /\ \A q \in Procs : q < p => pc[q] # "idle"
    /\ \A q \in Procs : pc[q] \notin {"done", "aborted"}

\* args.len() == 1: print_help()
Help(p) ==
    /\ CanStart(p)
    /\ args' = [args EXCEPT ![p] = <<"task-cli">>]
    /\ out' = [out EXCEPT ![p] = HelpText]
    /\ pc' = [pc EXCEPT ![p] = "done"]
    /\ runs' = runs + 1
    /\ UNCHANGED <<file, perm, tasks, issued, fresh, lastWriter, stale>>

\* Commands::from_str fails: println!("Invalid command"); print_help()
Invalid(p, a) ==
    /\ CanStart(p)
    /\ Len(a) > 1
    /\ ~CommandsFromStr(Arg(a, 1)).ok
    /\ args' = [args EXCEPT ![p] = a]
    /\ out' = [out EXCEPT ![p] = <<"Invalid command">> \o HelpText]
    /\ pc' = [pc EXCEPT ![p] = "done"]
    /\ runs' = runs + 1
    /\ UNCHANGED <<file, perm, tasks, issued, fresh, lastWriter, stale>>

\* The vector an invocation starts from, or none when the file does not parse.
Loaded ==
    IF ReadFile.ok THEN FromSlice(ReadFile.val) ELSE Ok(<<>>)

\* let mut tasks = if let Ok(tasks) = std::fs::read(..) { from_slice(..).expect(..) } else { Vec::new() }
Load(p, a) ==
    /\ CanStart(p)
    /\ Len(a) > 1
    /\ CommandsFromStr(Arg(a, 1)).ok
    /\ args' = [args EXCEPT ![p] = a]
    /\ runs' = runs + 1
    /\ stale' = [stale EXCEPT ![p] = FALSE]
    /\ IF Loaded.ok
       THEN /\ tasks' = [tasks EXCEPT ![p] = Loaded.val]
            /\ pc' = [pc EXCEPT ![p] = "loaded"]
       ELSE /\ tasks' = tasks
            /\ pc' = [pc EXCEPT ![p] = "aborted"]
    /\ UNCHANGED <<file, perm, out, issued, fresh, lastWriter>>

Cmd(p) == CommandsFromStr(Arg(args[p], 1)).val

Running(p, c) == pc[p] = "loaded" /\ Cmd(p) = c

\* A panic: the invocation ends before the write.
Abort(p) ==
    /\ pc' = [pc EXCEPT ![p] = "aborted"]
    /\ UNCHANGED <<tasks, out>>

\* The command is over: the invocation goes on to the write.
Ran(p, ts, o) ==
    /\ pc' = [pc EXCEPT ![p] = "ran"]
    /\ tasks' = [tasks EXCEPT ![p] = ts]
    /\ out' = [out EXCEPT ![p] = o]

\* Commands::Add
Add(p) ==
    /\ Running(p, "Add")
    /\ IF ~HasArg(args[p], 2)
       THEN Abort(p) /\ UNCHANGED <<issued, fresh>>
       ELSE \E u \in Ulids :
              /\ Ran(p, Push(tasks[p], Task(u, Arg(args[p], 2), "ToDo", UtcNow, UtcNow)), out[p])
              /\ issued' = issued \cup {u}
              /\ fresh' = (fresh /\ u \notin issued)
    /\ UNCHANGED <<file, perm, args, runs, lastWriter, stale>>

\* Commands::List
List(p) ==
    /\ Running(p, "List")
    /\ IF HasArg(args[p], 2)
       THEN IF StatusFromStr(Arg(args[p], 2)).ok
            THEN Ran(p, tasks[p], PrintAll(Filter(tasks[p], StatusFromStr(Arg(args[p], 2)).val)))
            ELSE Abort(p)
       ELSE Ran(p, tasks[p], PrintAll(tasks[p]))
    /\ UNCHANGED <<file, perm, args, runs, issued, fresh, lastWriter, stale>>

\* Commands::Mark
Mark(p) ==
    /\ Running(p, "Mark")
    /\ IF /\ HasArg(args[p], 2)
          /\ UlidFromString(Arg(args[p], 2)).ok
          /\ HasArg(args[p], 3)
          /\ StatusFromStr(Arg(args[p], 3)).ok
       THEN Ran(p, MarkFirst(tasks[p], UlidFromString(Arg(args[p], 2)).val,
                             StatusFromStr(Arg(args[p], 3)).val), out[p])
       ELSE Abort(p)
    /\ UNCHANGED <<file, perm, args, runs, issued, fresh, lastWriter, stale>>

\* Commands::Delete
Delete(p) ==
    /\ Running(p, "Delete")
    /\ IF HasArg(args[p], 2) /\ UlidFromString(Arg(args[p], 2)).ok
       THEN Ran(p, Retain(tasks[p], UlidFromString(Arg(args[p], 2)).val), out[p])
       ELSE Abort(p)
    /\ UNCHANGED <<file, perm, args, runs, issued, fresh, lastWriter, stale>>

\* Commands::Update
Update(p) ==
    /\ Running(p, "Update")
    /\ IF /\ HasArg(args[p], 2)
          /\ UlidFromString(Arg(args[p], 2)).ok
          /\ HasArg(args[p], 3)
       THEN Ran(p, UpdateFirst(tasks[p], UlidFromString(Arg(args[p], 2)).val,
                               Arg(args[p], 3)), out[p])
       ELSE Abort(p)
    /\ UNCHANGED <<file, perm, args, runs, issued, fresh, lastWriter, stale>>

\* A write that keeps the tasks of the file the invocation does not hold.
WrittenMerged(p) ==
    LET mine == ToVec(tasks[p]).data
        kept == IF file.kind = "json"
                THEN SelectSeq(file.data,
                               LAMBDA j : \A i \in 1..Len(mine) : mine[i].id # j.id)
                ELSE <<>>
    IN [kind |-> "json", data |-> kept \o mine]

\* A write that adds the vector to the array of the file instead of replacing it.
WrittenAppended(p) ==
    [kind |-> "json",
     data |-> (IF file.kind = "json" THEN file.data ELSE <<>>) \o ToVec(tasks[p]).data]

\* What std::fs::write leaves in the file.
Written(p) == ToVec(tasks[p])

\* std::fs::write(.., serde_json::to_vec(&tasks)..).expect("could not write to tasks file")
Save(p) ==
    /\ pc[p] = "ran"
    /\ ~CommandPending
    /\ IF perm.w
       THEN /\ file' = Written(p)
            /\ pc' = [pc EXCEPT ![p] = "done"]
            /\ lastWriter' = p
            /\ stale' = [q \in Procs |->
                           IF q # p /\ pc[q] \in {"loaded", "ran"} THEN TRUE ELSE stale[q]]
       ELSE /\ pc' = [pc EXCEPT ![p] = "aborted"]
            /\ UNCHANGED <<file, lastWriter, stale>>
    /\ UNCHANGED <<perm, args, tasks, out, runs, issued, fresh>>

\* The process is gone; its slot is free again.
Exit(p) ==
    /\ pc[p] \in {"done", "aborted"}
    /\ pc' = [pc EXCEPT ![p] = "idle"]
    /\ args' = [args EXCEPT ![p] = <<>>]
    /\ tasks' = [tasks EXCEPT ![p] = <<>>]
    /\ out' = [out EXCEPT ![p] = <<>>]
    /\ stale' = [stale EXCEPT ![p] = FALSE]
    /\ lastWriter' = IF lastWriter = p THEN 0 ELSE lastWriter
    /\ UNCHANGED <<file, perm, runs, issued, fresh>>

Next ==
    \/ \E p \in Procs : Help(p)
    \/ \E p \in Procs, a \in ArgVectors : Invalid(p, a)
    \/ \E p \in Procs, a \in ArgVectors : Load(p, a)
    \/ \E p \in Procs : Add(p)
    \/ \E p \in Procs : List(p)
    \/ \E p \in Procs : Mark(p)
    \/ \E p \in Procs : Delete(p)
    \/ \E p \in Procs : Update(p)
    \/ \E p \in Procs : Save(p)
    \/ \E p \in Procs : Exit(p)

Spec == Init /\ [][Next]_vars

----------------------------------------------------------------------------
(* Properties *)

\* The invocation in slot p runs command c.
IsCmd(p, c) == HasArg(args[p], 1) /\ CommandsFromStr(Arg(args[p], 1)) = Ok(c)

\* The invocation in slot p runs one of the five commands.
Recognized(p) == \E c \in {"Add", "Update", "Delete", "Mark", "List"} : IsCmd(p, c)

\* The step is the command of invocation p, and it ended without a panic.
CmdStep(p) == pc[p] = "loaded" /\ pc'[p] = "ran"

\* The step is the write of invocation p, and it succeeded.
SaveStep(p) == pc[p] = "ran" /\ pc'[p] = "done"

\* The ids of a vector, as a set, and the positions holding a given id.
IdSet(ts) == {ts[i].id : i \in 1..Len(ts)}
Matches(ts, id) == {i \in 1..Len(ts) : ts[i].id = id}
First(S) == IF S = {} THEN 0 ELSE CHOOSE i \in S : \A j \in S : i <= j

\* The id the second argument names, for the commands that take one.
ArgId(p) == UlidFromString(Arg(args[p], 2)).val

\* a is b with some elements left out, the others in the order they had.
RECURSIVE IsSubseq(_, _)
IsSubseq(a, b) ==
    IF a = <<>> THEN TRUE
    ELSE IF b = <<>> THEN FALSE
    ELSE IF Head(a) = Head(b) THEN IsSubseq(Tail(a), Tail(b))
    ELSE IsSubseq(a, Tail(b))

\* C1: an invocation of `list` never writes the file: no step of a `list`
\* invocation changes the file (nor creates it).
C1_ListNeverWrites ==
    [][\A p \in Procs :
         (pc[p] = "ran" /\ IsCmd(p, "List") /\ pc'[p] # pc[p]) => file' = file]_vars

\* C2: while the file exists and cannot be read, no recognized command gets
\* past the read: none goes on with a vector, none ends normally.
C2_UnreadableIsFatal ==
    (file.kind # "absent" /\ ~perm.r) =>
        \A p \in Procs : Recognized(p) => pc[p] \notin {"loaded", "ran", "done"}

\* The arguments of a recognized command are all there and all parse.
WellFormed(a) ==
    LET c == Arg(a, 1)
        idOk == HasArg(a, 2) /\ Arg(a, 2) \in {UlidTable[u] : u \in Ulids}
        kw == {"todo", "in-progress", "done"}
    IN CASE c = "add" -> HasArg(a, 2)
         [] c = "list" -> (HasArg(a, 2) => Arg(a, 2) \in kw)
         [] c = "mark" -> idOk /\ HasArg(a, 3) /\ Arg(a, 3) \in kw
         [] c = "delete" -> idOk
         [] c = "update" -> idOk /\ HasArg(a, 3)
         [] OTHER -> FALSE

\* C3: an invocation with a malformed id, an unknown status keyword, a missing
\* argument or a corrupt file never reaches the write (it aborts first), and
\* the step on which an invocation aborts leaves the file as it was, as does
\* every step that is not a successful write.
C3_FatalErrorsWriteNothing ==
    [][/\ \A p \in Procs :
            (pc'[p] \in {"ran", "done"} /\ Recognized(p)') => WellFormed(args'[p])
       /\ \A p \in Procs :
            (pc[p] = "idle" /\ pc'[p] = "loaded" /\ ReadFile.ok) => FromSlice(file).ok
       /\ \A p \in Procs :
            (pc[p] # "aborted" /\ pc'[p] = "aborted") => file' = file
       /\ file' # file => \E p \in Procs : SaveStep(p)]_vars

C3_Witness ==
    \E p \in Procs :
        /\ pc[p] = "aborted"
        /\ args[p] = <<"task-cli", "mark", "01A", "started">>
        /\ tasks[p] # <<>>
        /\ file.kind = "json"
        /\ perm.w

\* C4: after two overlapping invocations the file is exactly the vector of the
\* one that wrote last; when that one had read the file before the other wrote,
\* the task the other added is not in the file; an invocation whose read is
\* out of date goes on all the same, and aborts on nothing but its own arguments.
C4_LastWriterWins ==
    /\ lastWriter # 0 =>
          /\ pc[lastWriter] = "done"
          /\ file = ToVec(tasks[lastWriter])
    /\ \A p, q \in Procs :
          (/\ p # q /\ lastWriter = q /\ stale[q]
           /\ pc[p] = "done" /\ IsCmd(p, "Add") /\ fresh)
          => \A i \in 1..Len(file.data) :
                file.data[i].id # UlidToString(tasks[p][Len(tasks[p])].id)
    /\ \A q \in Procs : (stale[q] /\ pc[q] = "aborted") => ~WellFormed(args[q])

C4_Witness ==
    \E p, q \in Procs :
        /\ p # q /\ lastWriter = q /\ stale[q] /\ fresh
        /\ pc[p] = "done" /\ pc[q] = "done"
        /\ IsCmd(p, "Add") /\ IsCmd(q, "Add")
        /\ Len(file.data) = 2

\* C5: with several tasks of the same id, mark and update change the first of
\* them in the vector's order and no other task, and delete removes them all.
C5_FirstMatch ==
    [][\A p \in Procs : CmdStep(p) =>
         LET old == tasks[p]
             new == tasks'[p]
             M == Matches(old, ArgId(p))
         IN /\ (IsCmd(p, "Mark") /\ M # {}) =>
                  /\ Len(new) = Len(old)
                  /\ new[First(M)].status = StatusFromStr(Arg(args[p], 3)).val
                  /\ \A i \in 1..Len(old) : i # First(M) => new[i] = old[i]
            /\ (IsCmd(p, "Update") /\ M # {}) =>
                  /\ Len(new) = Len(old)
                  /\ new[First(M)].description = Arg(args[p], 3)
                  /\ \A i \in 1..Len(old) : i # First(M) => new[i] = old[i]
            /\ IsCmd(p, "Delete") =>
                  /\ Len(new) = Len(old) - Cardinality(M)
                  /\ ArgId(p) \notin IdSet(new)]_vars

C5_Witness ==
    \E p \in Procs :
        /\ pc[p] = "ran"
        /\ args[p] = <<"task-cli", "mark", "01A", "done">>
        /\ Len(tasks[p]) = 2
        /\ tasks[p][1].id = tasks[p][2].id
        /\ tasks[p][1].status = "Done"
        /\ tasks[p][2].status = "ToDo"

\* C6: mark, delete and update with a well-formed id that no task has end
\* without a panic and leave the vector as it was; the write that follows
\* succeeds where the file can be written, and the file then loads back to
\* the vector.
C6_AbsentIdNoOp ==
    [][\A p \in Procs :
         /\ (/\ pc[p] = "loaded" /\ pc'[p] # "loaded"
             /\ (IsCmd(p, "Mark") \/ IsCmd(p, "Delete") \/ IsCmd(p, "Update"))
             /\ WellFormed(args[p])
             /\ Matches(tasks[p], ArgId(p)) = {})
            => (pc'[p] = "ran" /\ tasks'[p] = tasks[p])
         /\ (pc[p] = "ran" /\ pc'[p] # "ran" /\ perm.w)
            => (pc'[p] = "done" /\ FromSlice(file') = Ok(tasks[p]))]_vars

C6_Witness ==
    \E p \in Procs :
        /\ pc[p] = "done"
        /\ args[p] = <<"task-cli", "mark", "01C", "done">>
        /\ Len(tasks[p]) = 2
        /\ Matches(tasks[p], 3) = {}
        /\ lastWriter = p
        /\ FromSlice(file) = Ok(tasks[p])

\* C7: as long as no id is generated twice, the ids of the file are pairwise
\* distinct after any sequence of invocations.
C7_IdsDistinct ==
    (fresh /\ file.kind = "json") =>
        \A i, j \in 1..Len(file.data) : i # j => file.data[i].id # file.data[j].id

\* Two tasks, both added in this run from no file, with different ids.
C7_Witness ==
    /\ fresh /\ file.kind = "json" /\ Len(file.data) = 2
    /\ file.data[1].created_at = 1 /\ file.data[2].created_at = 2
    /\ file.data[1].id # file.data[2].id

\* C8: the vector is in insertion order: add puts the new task, with status
\* ToDo, after the others and changes none of them; delete leaves the other
\* tasks in the order they had; mark, update and list keep every task at its
\* place; the read and the write keep the order.
C8_InsertionOrder ==
    [][\A p \in Procs :
         LET old == tasks[p]
             new == tasks'[p]
         IN /\ (CmdStep(p) /\ IsCmd(p, "Add")) =>
                  /\ Len(new) = Len(old) + 1
                  /\ SubSeq(new, 1, Len(old)) = old
                  /\ new[Len(new)].status = "ToDo"
                  /\ new[Len(new)].description = Arg(args[p], 2)
            /\ (CmdStep(p) /\ IsCmd(p, "Delete")) => IsSubseq(new, old)
            /\ (CmdStep(p) /\ (IsCmd(p, "Mark") \/ IsCmd(p, "Update") \/ IsCmd(p, "List"))) =>
                  /\ Len(new) = Len(old)
                  /\ \A i \in 1..Len(old) : new[i].id = old[i].id
            /\ (pc[p] = "idle" /\ pc'[p] = "loaded" /\ ReadFile.ok) =>
                  /\ Len(new) = Len(file.data)
                  /\ \A i \in 1..Len(new) : UlidToString(new[i].id) = file.data[i].id
            /\ SaveStep(p) =>
                  /\ Len(file'.data) = Len(old)
                  /\ \A i \in 1..Len(old) : file'.data[i].id = UlidToString(old[i].id)]_vars

C8_Witness ==
    \E p \in Procs :
        /\ pc[p] = "ran" /\ IsCmd(p, "Add")
        /\ Len(tasks[p]) = 3
        /\ tasks[p][1].created_at = 0 /\ tasks[p][2].created_at = 0
        /\ tasks[p][3].created_at = runs
        /\ tasks[p][3].status = "ToDo"

\* What of a task no command changes.
Fixed(t) == <<t.id, t.created_at, t.updated_at>>

\* C9: on a matching id mark changes the status of the matched task and
\* nothing else of it, update its description and nothing else; every other
\* task is unchanged; id, created_at and updated_at of a task are the same
\* after every command, every write and every read.
C9_OnlyTheNamedField ==
    [][\A p \in Procs :
         LET old == tasks[p]
             new == tasks'[p]
         IN /\ (CmdStep(p) /\ IsCmd(p, "Mark")) =>
                  /\ Len(new) = Len(old)
                  /\ \A i \in 1..Len(old) :
                        /\ [new[i] EXCEPT !.status = old[i].status] = old[i]
                        /\ new[i] # old[i] => i = First(Matches(old, ArgId(p)))
            /\ (CmdStep(p) /\ IsCmd(p, "Update")) =>
                  /\ Len(new) = Len(old)
                  /\ \A i \in 1..Len(old) :
                        /\ [new[i] EXCEPT !.description = old[i].description] = old[i]
                        /\ new[i] # old[i] => i = First(Matches(old, ArgId(p)))
            /\ (CmdStep(p) /\ IsCmd(p, "List")) => new = old
            /\ (CmdStep(p) /\ IsCmd(p, "Delete")) =>
                  \A i \in 1..Len(new) : \E j \in 1..Len(old) : new[i] = old[j]
            /\ (CmdStep(p) /\ IsCmd(p, "Add")) =>
                  \A i \in 1..Len(old) : new[i] = old[i]
            /\ SaveStep(p) =>
                  \A i \in 1..Len(old) :
                        /\ file'.data[i].created_at = old[i].created_at
                        /\ file'.data[i].updated_at = old[i].updated_at
                        /\ UlidFromString(file'.data[i].id) = Ok(old[i].id)
            /\ (pc[p] = "idle" /\ pc'[p] = "loaded" /\ ReadFile.ok) =>
                  \A i \in 1..Len(new) :
                        Fixed(new[i]) = <<UlidFromString(file.data[i].id).val,
                                          file.data[i].created_at,
                                          file.data[i].updated_at>>]_vars

\* A task made at time 0 is marked done at a later time.
C9_Witness ==
    \E p \in Procs :
        /\ pc[p] = "ran"
        /\ args[p] = <<"task-cli", "mark", "01B", "done">>
        /\ runs = 2
        /\ Len(tasks[p]) = 2
        /\ tasks[p][1] = Task(1, "a", "Done", 0, 0)
        /\ tasks[p][2] = Task(2, "b", "Done", 0, 0)

\* The i-th of the positions in S, counted from the first.
Rank(S, i) == Cardinality({j \in S : j <= i})

\* What a line says of a task.
LineOf(line, t) ==
    /\ Len(line) = 3
    /\ UlidFromString(line[1]) = Ok(t.id)
    /\ line[2] = t.description
    /\ StatusFromStr(line[3]) = Ok(t.status)

\* C10: `list <status>` prints one line for each task whose status is the one
\* given, and for no other, in the vector's order; `list` prints one line for
\* each task in the vector's order.
C10_ListPrintsTheFilter ==
    \A p \in Procs :
        (pc[p] \in {"ran", "done"} /\ IsCmd(p, "List")) =>
            LET ts == tasks[p]
                S == IF HasArg(args[p], 2)
                     THEN {i \in 1..Len(ts) :
                             StatusFromStr(Arg(args[p], 2)) = Ok(ts[i].status)}
                     ELSE 1..Len(ts)
            IN /\ Len(out[p]) = Cardinality(S)
               /\ \A i \in S : LineOf(out[p][Rank(S, i)], ts[i])

\* After `mark 01A done` on two tasks `list done` prints the one marked.
C10_Witness ==
    \E p \in Procs :
        /\ pc[p] = "ran"
        /\ args[p] = <<"task-cli", "list", "done">>
        /\ Len(tasks[p]) = 2
        /\ tasks[p][1].status = "Done" /\ tasks[p][2].status = "ToDo"
        /\ out[p] = << <<"01A", "a", "done">> >>

====
